---- MODULE Spec2Model ----
(***************************************************************************)
(* Model of the Open WebUI pipe for the o1-pro / o3-pro Responses API      *)
(* (src/o1o3-pro-plugin-openwebui.py, class Pipe).                         *)
(*                                                                         *)
(* Text is a sequence of one-character strings.  A dict value that may be  *)
(* missing, null or a number is a tagged record (Absent, NoneVal, Num(n)). *)
(* Money is counted in millionths of a dollar: the code computes           *)
(* (tokens / 1_000_000) * price in dollars, the model tokens * price.      *)
(***************************************************************************)
EXTENDS Integers, Sequences, FiniteSets, TLC

VARIABLES
    valves,              \* self.valves: the fields the pipe reads
    api_key_index,       \* self.api_key_index
    conversation_costs,  \* self.conversation_costs: conv_id -> totals
    hostConcurrency,     \* how many turns the host keeps in flight at once
    turn,                \* per slot: the pipe() generator's frame
    started,             \* number of pipe() calls made so far
    trace                \* calls made directly on the instance's methods

vars == <<valves, api_key_index, conversation_costs, hostConcurrency, turn,
          started, trace>>

-----------------------------------------------------------------------------
(* Bounds of the model *)

MaxTurns == 2       \* pipe() calls per behaviour
MaxSlots == 2       \* generator frames the host can hold
MaxKeyChars == 5    \* length of API_KEYS when the rotation is driven alone
MaxCalls == 6       \* direct calls of _get_next_api_key per behaviour
MaxUpdates == 3     \* direct calls of _update_conversation_cost per behaviour

(* Program constants *)

PrefixLen == 50
DigestLen == 16
Million == 1000000

-----------------------------------------------------------------------------
(* Text helpers *)

Rep(c, n) == [i \in 1..n |-> c]

Min(a, b) == IF a < b THEN a ELSE b

\* s[:n]
Take(s, n) == SubSeq(s, 1, Min(n, Len(s)))

\* s[n+1:]
Drop(s, n) == SubSeq(s, n + 1, Len(s))

\* str.find: index of the first c in s, counted from 1; 0 when there is none
RECURSIVE Find(_, _, _)
Find(s, c, i) ==
    IF i > Len(s) THEN 0
    ELSE IF s[i] = c THEN i
    ELSE Find(s, c, i + 1)

\* str.strip for the blank character
RECURSIVE LStrip(_)
LStrip(s) == IF s # <<>> /\ Head(s) = " " THEN LStrip(Tail(s)) ELSE s

RECURSIVE RStrip(_)
RStrip(s) ==
    IF s # <<>> /\ s[Len(s)] = " " THEN RStrip(SubSeq(s, 1, Len(s) - 1)) ELSE s

Strip(s) == RStrip(LStrip(s))

\* str.split(","): always at least one entry
RECURSIVE Split(_)
Split(s) ==
    LET i == Find(s, ",", 1)
    IN  IF i = 0 THEN <<s>>
        ELSE <<SubSeq(s, 1, i - 1)>> \o Split(Drop(s, i))

\* " ".join(parts)
RECURSIVE Join(_)
Join(parts) ==
    IF parts = <<>> THEN <<>>
    ELSE IF Len(parts) = 1 THEN parts[1]
    ELSE parts[1] \o <<" ">> \o Join(Tail(parts))

\* dict.get(key, default) on a record
Get(d, key, default) == IF key \in DOMAIN d THEN d[key] ELSE default

\* A JSON value that may be missing, null or a number
Absent == [t |-> "absent", v |-> 0]
NoneVal == [t |-> "none", v |-> 0]
Num(n) == [t |-> "int", v |-> n]

\* usage.get(key, 0): the default only replaces a missing key
GetOr0(x) == IF x.t = "absent" THEN Num(0) ELSE x

-----------------------------------------------------------------------------
(* Credential rotation *)

\* [k.strip() for k in API_KEYS.split(",") if k.strip()]
RECURSIVE StripNonBlank(_)
StripNonBlank(entries) ==
    IF entries = <<>> THEN <<>>
    ELSE LET k == Strip(Head(entries))
         IN  (IF k # <<>> THEN <<k>> ELSE <<>>) \o StripNonBlank(Tail(entries))

ParseKeys(api_keys) == StripNonBlank(Split(api_keys))

\* GetNextApiKey leaving the cursor where it was
GetNextApiKey_NoAdvance(v, index) ==
    LET keys == ParseKeys(v.API_KEYS)
    IN  IF keys = <<>>
        THEN [raised |-> TRUE, key |-> <<>>, index |-> index]
        ELSE [raised |-> FALSE,
              key |-> keys[(index % Len(keys)) + 1],
              index |-> index]

\* GetNextApiKey with the cursor wrapped to the length of the list
GetNextApiKey_Wrap(v, index) ==
    LET keys == ParseKeys(v.API_KEYS)
    IN  IF keys = <<>>
        THEN [raised |-> TRUE, key |-> <<>>, index |-> index]
        ELSE [raised |-> FALSE,
              key |-> keys[(index % Len(keys)) + 1],
              index |-> (index + 1) % Len(keys)]

\* _get_next_api_key: the key returned and the cursor it leaves, or the
\* ValueError("No API keys configured")
GetNextApiKey(v, index) ==
    LET keys == ParseKeys(v.API_KEYS)
    IN  IF keys = <<>>
        THEN [raised |-> TRUE, key |-> <<>>, index |-> index]
        ELSE [raised |-> FALSE,
              key |-> keys[(index % Len(keys)) + 1],
              index |-> index + 1]

-----------------------------------------------------------------------------
(* Conversation identifier *)

NoMessage == <<"n", "o", "_", "m", "e", "s", "s", "a", "g", "e">>
Unknown == <<"u", "n", "k", "n", "o", "w", "n">>

\* item.get("text", "") for the items whose item.get("type") == "text"
RECURSIVE TextItems(_)
TextItems(parts) ==
    IF parts = <<>> THEN <<>>
    ELSE (IF Get(Head(parts), "type", "") = "text"
          THEN <<Get(Head(parts), "text", <<>>)>>
          ELSE <<>>) \o TextItems(Tail(parts))

\* The text of a message content: the text items joined by one blank for a
\* list, str(content) otherwise
ContentText(content) ==
    IF content.kind = "list" THEN Join(TextItems(content.parts)) ELSE content.str

\* FirstUserMessage without the break: the last user message wins
RECURSIVE FirstUserMessage_Last(_)
FirstUserMessage_Last(messages) ==
    IF messages = <<>> THEN <<>>
    ELSE IF Get(messages[Len(messages)], "role", "") = "user"
         THEN ContentText(messages[Len(messages)].content)
         ELSE FirstUserMessage_Last(SubSeq(messages, 1, Len(messages) - 1))

\* The loop of _get_conversation_id: the text of the first message whose role
\* is "user" (the loop breaks there), None (here <<>>) when there is none
RECURSIVE FirstUserMessage(_)
FirstUserMessage(messages) ==
    IF messages = <<>> THEN <<>>
    ELSE IF Get(Head(messages), "role", "") = "user"
         THEN ContentText(Head(messages).content)
         ELSE FirstUserMessage(Tail(messages))

\* hashlib.sha256(s.encode()).hexdigest()[:16], kept symbolic: the digest of s
\* is the value tagged with s, so two digests are equal exactly when their
\* inputs are (collisions of the truncated digest are not modelled)
Sha256Hex16(s) == [digest |-> s, hexchars |-> DigestLen]

\* _get_conversation_id
GetConversationId(body, user) ==
    LET first == FirstUserMessage(body.messages)
        first_user_message == IF first = <<>> THEN NoMessage ELSE first
        user_id == Get(user, "id", Unknown)
        message_key == Take(first_user_message, PrefixLen)
        conv_hash == Sha256Hex16(user_id \o <<"_">> \o message_key)
    IN  [prefix |-> "conv", user_id |-> user_id, conv_hash |-> conv_hash]

-----------------------------------------------------------------------------
(* Message translation *)

\* One item of a user message's list content: the segments it adds (none for a
\* type that is neither text nor image_url), or the KeyError of a missing key
TransformItem(item) ==
    IF "type" \notin DOMAIN item THEN [raised |-> TRUE, out |-> <<>>]
    ELSE IF item.type = "text"
    THEN IF "text" \notin DOMAIN item
         THEN [raised |-> TRUE, out |-> <<>>]
         ELSE [raised |-> FALSE,
               out |-> <<[type |-> "input_text", text |-> item.text]>>]
    ELSE IF item.type = "image_url"
    THEN IF "image_url" \notin DOMAIN item \/ "url" \notin DOMAIN item.image_url
         THEN [raised |-> TRUE, out |-> <<>>]
         ELSE [raised |-> FALSE,
               out |-> <<[type |-> "input_image",
                          image_url |-> item.image_url.url]>>]
    ELSE [raised |-> FALSE, out |-> <<>>]

RECURSIVE TransformItems(_)
TransformItems(parts) ==
    IF parts = <<>> THEN [raised |-> FALSE, out |-> <<>>]
    ELSE LET h == TransformItem(Head(parts))
             r == TransformItems(Tail(parts))
         IN  IF h.raised \/ r.raised
             THEN [raised |-> TRUE, out |-> <<>>]
             ELSE [raised |-> FALSE, out |-> h.out \o r.out]

\* One message: the block it adds (none for a role outside user, assistant,
\* system), or the error
TransformMessage(message) ==
    LET role == Get(message, "role", "")
        content == message.content
    IN  IF role = "user"
        THEN IF content.kind = "list"
             THEN LET r == TransformItems(content.parts)
                  IN  IF r.raised THEN [raised |-> TRUE, out |-> <<>>]
                      ELSE [raised |-> FALSE,
                            out |-> <<[role |-> "user", content |-> r.out]>>]
             ELSE [raised |-> FALSE,
                   out |-> <<[role |-> "user",
                              content |-> <<[type |-> "input_text",
                                             text |-> content.str]>>]>>]
        ELSE IF role = "assistant"
        THEN [raised |-> FALSE,
              out |-> <<[role |-> "assistant",
                         content |-> <<[type |-> "output_text",
                                        text |-> content]>>]>>]
        ELSE IF role = "system"
        THEN [raised |-> FALSE,
              out |-> <<[role |-> "system",
                         content |-> <<[type |-> "input_text",
                                        text |-> content]>>]>>]
        ELSE [raised |-> FALSE, out |-> <<>>]

\* _transform_messages: the whole list or ValueError("Invalid message format")
RECURSIVE TransformMessages(_)
TransformMessages(messages) ==
    IF messages = <<>> THEN [raised |-> FALSE, out |-> <<>>]
    ELSE LET h == TransformMessage(Head(messages))
             r == TransformMessages(Tail(messages))
         IN  IF h.raised \/ r.raised
             THEN [raised |-> TRUE, out |-> <<>>]
             ELSE [raised |-> FALSE, out |-> h.out \o r.out]

-----------------------------------------------------------------------------
(* Cost and accounting *)

O1Pro == <<"o1-pro">>
O3Pro == <<"o3-pro">>

\* openai_response_models with one more model let through
openai_response_models_Gpt4 == {O1Pro, O3Pro, <<"gpt-4">>}

\* self.openai_response_models
openai_response_models == {O1Pro, O3Pro}

\* The pricing table of pipe(): dollars per million tokens
pricing ==
    [m \in {O3Pro, O1Pro} |->
        IF m = O3Pro THEN [input |-> 20, output |-> 80]
        ELSE [input |-> 150, output |-> 600]]

\* ReasoningCost charging the reasoning tokens of every priced model
ReasoningCost_AnyModel(model_id, reasoning_tokens) ==
    IF reasoning_tokens > 0
    THEN reasoning_tokens * pricing[model_id].output
    ELSE 0

\* Lines 445-449: reasoning tokens are charged, at the output price, for
\* o3-pro alone
ReasoningCost(model_id, reasoning_tokens) ==
    IF reasoning_tokens > 0 /\ model_id = O3Pro
    THEN reasoning_tokens * pricing[model_id].output
    ELSE 0

\* The cost computation of pipe(), lines 429-451: the token counts read from
\* the usage block and the cost of the message in millionths of a dollar.
\* raised: the arithmetic or the comparison met a null, or the details were
\* null.  priced: the model is in the pricing table (only then is the account
\* updated).
CurrentCost(model_id, usage) ==
    IF model_id \notin DOMAIN pricing
    THEN [raised |-> FALSE, priced |-> FALSE, cost |-> 0,
          tokens |-> [input |-> 0, output |-> 0, reasoning |-> 0]]
    ELSE LET input_tokens == GetOr0(usage.input_tokens)
             output_tokens == GetOr0(usage.output_tokens)
             reasoning_tokens ==
                 IF usage.output_tokens_details = "absent" THEN Num(0)
                 ELSE GetOr0(usage.reasoning_tokens)
             bad == \/ usage.output_tokens_details = "null"
                    \/ input_tokens.t = "none"
                    \/ output_tokens.t = "none"
                    \/ reasoning_tokens.t = "none"
             input_cost == input_tokens.v * pricing[model_id].input
             output_cost == output_tokens.v * pricing[model_id].output
             reasoning_cost == ReasoningCost(model_id, reasoning_tokens.v)
         IN  IF bad
             THEN [raised |-> TRUE, priced |-> TRUE, cost |-> 0,
                   tokens |-> [input |-> 0, output |-> 0, reasoning |-> 0]]
             ELSE [raised |-> FALSE, priced |-> TRUE,
                   cost |-> input_cost + output_cost + reasoning_cost,
                   tokens |-> [input |-> input_tokens.v,
                               output |-> output_tokens.v,
                               reasoning |-> reasoning_tokens.v]]

\* The account _update_conversation_cost creates
NewAccount ==
    [total_cost |-> 0, total_input_tokens |-> 0, total_output_tokens |-> 0,
     total_reasoning_tokens |-> 0, message_count |-> 0]

\* UpdateConversationCost storing the supplied values instead of adding them
UpdateConversationCost_Replace(costs, conv_id, cost, tokens) ==
    LET old == IF conv_id \in DOMAIN costs THEN costs[conv_id] ELSE NewAccount
        new == [total_cost |-> cost,
                total_input_tokens |-> Get(tokens, "input", 0),
                total_output_tokens |-> Get(tokens, "output", 0),
                total_reasoning_tokens |-> Get(tokens, "reasoning", 0),
                message_count |-> old.message_count + 1]
    IN  [c \in DOMAIN costs \cup {conv_id} |->
            IF c = conv_id THEN new ELSE costs[c]]

\* _update_conversation_cost: the mapping after the call
UpdateConversationCost(costs, conv_id, cost, tokens) ==
    LET old == IF conv_id \in DOMAIN costs THEN costs[conv_id] ELSE NewAccount
        new == [total_cost |-> old.total_cost + cost,
                total_input_tokens |->
                    old.total_input_tokens + Get(tokens, "input", 0),
                total_output_tokens |->
                    old.total_output_tokens + Get(tokens, "output", 0),
                total_reasoning_tokens |->
                    old.total_reasoning_tokens + Get(tokens, "reasoning", 0),
                message_count |-> old.message_count + 1]
    IN  [c \in DOMAIN costs \cup {conv_id} |->
            IF c = conv_id THEN new ELSE costs[c]]

\* _format_token_stats: "" (shown = FALSE), the statistics block, or the error
\* of formatting a null with the "," format
FormatTokenStats(usage, status, incomplete_reason, conv_id, current_cost, v, costs) ==
    IF ~usage.present \/ ~v.SHOW_TOKEN_STATS
    THEN [raised |-> FALSE, shown |-> FALSE]
    ELSE LET input_tokens == GetOr0(usage.input_tokens)
             output_tokens == GetOr0(usage.output_tokens)
             total_tokens == GetOr0(usage.total_tokens)
             reasoning_tokens ==
                 IF usage.output_tokens_details = "absent" THEN Num(0)
                 ELSE GetOr0(usage.reasoning_tokens)
             bad == \/ usage.output_tokens_details = "null"
                    \/ input_tokens.t = "none"
                    \/ output_tokens.t = "none"
                    \/ total_tokens.t = "none"
                    \/ reasoning_tokens.t = "none"
             cumulative == v.SHOW_CUMULATIVE_COST /\ conv_id \in DOMAIN costs
         IN  IF bad THEN [raised |-> TRUE, shown |-> FALSE]
             ELSE [raised |-> FALSE, shown |-> TRUE,
                   input |-> input_tokens.v,
                   reasoning |-> reasoning_tokens.v,
                   output |-> output_tokens.v,
                   total |-> total_tokens.v,
                   cost |-> current_cost,
                   cumulative |-> cumulative,
                   totals |-> IF cumulative THEN costs[conv_id] ELSE NewAccount,
                   status |-> status,
                   incomplete_reason |-> incomplete_reason]

-----------------------------------------------------------------------------
(* Inputs: what the host passes to pipe() and what the remote API answers *)

Hi == <<"h", "i">>
More == <<"m", "o", "r", "e">>
LongA == Rep("a", PrefixLen) \o <<"x">>
LongB == Rep("a", PrefixLen) \o <<"y", "z">>
LongC == Rep("a", PrefixLen - 1) \o <<"b", "x">>
Url == <<"h", "t", "t", "p", ":", "/", "/", "x">>

Str(s) == [kind |-> "str", str |-> s]
List(parts) == [kind |-> "list", parts |-> parts]
Msg(role, content) == [role |-> role, content |-> content]
TextPart(s) == [type |-> "text", text |-> s]
ImagePart(u) == [type |-> "image_url", image_url |-> [url |-> u]]

Histories ==
    << <<Msg("user", Str(Hi))>>,
       <<Msg("system", Str(More)), Msg("user", Str(Hi)),
         Msg("assistant", Str(More)), Msg("tool", Str(Hi)),
         Msg("user", Str(More))>>,
       <<Msg("user", Str(LongA))>>,
       <<Msg("user", Str(LongB)), Msg("assistant", Str(Hi)),
         Msg("user", Str(Hi))>>,
       <<Msg("system", Str(Hi))>>,
       <<Msg("user", List(<<TextPart(Hi), ImagePart(Url)>>))>>,
       <<Msg("user", List(<<[type |-> "text"]>>))>>,
       <<Msg("user", Str(Hi)),
         Msg("user", List(<<[type |-> "image_url", image_url |-> [alt |-> Hi]]>>))>>,
       <<Msg("user", Str(LongC))>>,
       <<Msg("user", List(<<TextPart(<<"h">>), [type |-> "audio"],
                            TextPart(<<"i">>)>>))>> >>

U1 == [id |-> <<"u", "1">>]
U2 == [id |-> <<"u", "2">>]
NoId == [name |-> <<"n">>]
Users == {U1, U2, NoId}

ModelO3 == <<"openai", ".", "o3-pro">>
ModelO1 == <<"openai", ".", "o1-pro">>
ModelBare == <<"o3-pro">>
ModelGpt4 == <<"openai", ".", "gpt-4">>
ModelTwoDots == <<"a", ".", "b", ".", "o3-pro">>

Req(user, model, h) ==
    [user |-> user, body |-> [model |-> model, messages |-> Histories[h]]]

\* The calls of pipe() the host makes
Requests ==
    << Req(U1, ModelO3, 1), Req(U1, ModelO1, 2), Req(U2, ModelBare, 6),
       Req(U1, ModelGpt4, 1), Req(U1, ModelO3, 7), Req(U1, ModelO1, 3),
       Req(U1, ModelO3, 4), Req(U1, ModelTwoDots, 1), Req(NoId, ModelO1, 5),
       Req(U2, ModelGpt4, 8), Req(U2, ModelO1, 8) >>

\* response_data.get("usage", {}): empty or missing
NoUsage ==
    [present |-> FALSE, input_tokens |-> Absent, output_tokens |-> Absent,
     total_tokens |-> Absent, output_tokens_details |-> "absent",
     reasoning_tokens |-> Absent]

Usage(in, out, total, details, reasoning) ==
    [present |-> TRUE, input_tokens |-> in, output_tokens |-> out,
     total_tokens |-> total, output_tokens_details |-> details,
     reasoning_tokens |-> reasoning]

WellFormedUsages ==
    {Usage(Num(i), Num(o), Num(i + o), "absent", Absent) :
        i \in {0, 2}, o \in {0, 1}}
    \cup {Usage(Num(i), Num(1), Num(i + 2), "dict", Num(1)) : i \in {0, 2}}
    \cup {Usage(Num(2), Absent, Absent, "dict", Absent)}

MalformedUsages ==
    {Usage(NoneVal, Num(1), Num(1), "absent", Absent),
     Usage(Num(2), Num(1), NoneVal, "absent", Absent),
     Usage(Num(2), Num(1), Num(3), "null", Absent),
     Usage(Num(2), Num(1), Num(3), "dict", NoneVal)}

Usages == {NoUsage} \cup WellFormedUsages \cup MalformedUsages

\* A decoded body: text is what the three extraction methods end with,
\* tools whether an output item is a file_search or function item
Body(text, status, details, tools, usage) ==
    [valid |-> TRUE, text |-> text, status |-> status,
     incomplete_details |-> details, tools |-> tools, usage |-> usage]

\* response.json() raising, or a body the extraction cannot walk
InvalidBody ==
    [valid |-> FALSE, text |-> "none", status |-> "completed",
     incomplete_details |-> "absent", tools |-> FALSE, usage |-> NoUsage]

Bodies ==
    {Body("found", "completed", "absent", FALSE, u) : u \in Usages}
    \cup {Body("none", "incomplete", "max_output_tokens", TRUE, u) :
            u \in {NoUsage, Usage(Num(2), Num(1), Num(3), "absent", Absent)}}
    \cup {Body("found", "incomplete", "absent", FALSE, u) :
            u \in {NoUsage, Usage(Num(0), Num(1), Num(2), "dict", Num(1))}}
    \cup {Body("found", "incomplete", "null", FALSE,
               Usage(Num(2), Num(1), Num(3), "absent", Absent)),
          InvalidBody}

\* What the POST ends with
Responses ==
    {[kind |-> "timeout", status_code |-> 0, body |-> InvalidBody],
     [kind |-> "response", status_code |-> 500, body |-> InvalidBody]}
    \cup {[kind |-> "response", status_code |-> 200, body |-> b] : b \in Bodies}

NoResponse == [kind |-> "none", status_code |-> 0, body |-> InvalidBody]

\* The configurations the adapter is loaded with
ValvesOf(keys, stats, cumulative) ==
    [API_KEYS |-> keys, SHOW_TOKEN_STATS |-> stats,
     SHOW_CUMULATIVE_COST |-> cumulative]

Configurations ==
    {ValvesOf(<<>>, TRUE, TRUE),
     ValvesOf(<<" ", ",", " ">>, TRUE, TRUE),
     ValvesOf(<<"a">>, TRUE, TRUE),
     ValvesOf(<<"a">>, FALSE, TRUE),
     ValvesOf(<<" ", "a", " ", ",", ",", "b">>, TRUE, FALSE)}

-----------------------------------------------------------------------------
(* pipe(): the generator, cut at its suspension points (each yield and the
   awaited POST) *)

Frag(kind, head) == [kind |-> kind, head |-> head]

ErrorFrag(msg) == [kind |-> "error", head |-> "Error:", msg |-> msg]

NoConv == [prefix |-> "none", user_id |-> <<>>, conv_hash |-> Sha256Hex16(<<>>)]

\* No call of pipe() in this slot yet
IdleFrame ==
    [pc |-> "idle", req |-> 0, conv_id |-> NoConv, model_id |-> <<>>,
     api_key |-> <<>>, frags |-> <<>>, posts |-> 0, resp |-> NoResponse,
     status |-> "completed", incomplete_reason |-> "none",
     costs0 |-> <<>>, idx0 |-> 0]

Yield(frame, frag, pc) == [frame EXCEPT !.frags = @ \o <<frag>>, !.pc = pc]

\* OnException without the handler: the exception leaves the generator
OnException_Propagate(frame, msg) == [frame EXCEPT !.pc = "raised"]

\* except Exception as e: yield f"Error: {str(e)}"; return
OnException(frame, msg) == Yield(frame, ErrorFrag(msg), "last")

\* OnTimeout sending the request again instead of reporting
OnTimeout_Retry(frame) == [frame EXCEPT !.pc = "processing"]

\* except httpx.TimeoutException: yield "Error: Request timed out ..."
OnTimeout(frame) == Yield(frame, ErrorFrag("Request timed out"), "last")

\* body["model"][body["model"].find(".") + 1:]
ExtractModelId(model) == Drop(model, Find(model, ".", 1))

\* Lines 306-344: from the call to the first yield
PipeStart(frame, request, v, index, costs) ==
    LET conv_id == GetConversationId(request.body, request.user)
        k == GetNextApiKey(v, index)
        model_id == ExtractModelId(request.body.model)
        input == TransformMessages(request.body.messages)
        f1 == [frame EXCEPT !.conv_id = conv_id]
        f2 == [f1 EXCEPT !.api_key = k.key, !.model_id = model_id]
        current_message_number ==
            IF conv_id \in DOMAIN costs THEN costs[conv_id].message_count + 1
            ELSE 1
    IN  IF k.raised
        THEN [frame |-> OnException(f1, "No API keys configured"),
              index |-> index]
        ELSE IF model_id \notin openai_response_models
        THEN [frame |-> Yield(f2, ErrorFrag("Model not supported"), "last"),
              index |-> k.index]
        ELSE IF input.raised
        THEN [frame |-> OnException(f2, "Invalid message format"),
              index |-> k.index]
        ELSE [frame |-> Yield(f2, [kind |-> "processing", head |-> "Processing",
                                   n |-> current_message_number], "processing"),
              index |-> k.index]

\* Lines 346-352: resumed after the processing notice, the POST is issued
PipePost(frame) == [frame EXCEPT !.posts = @ + 1, !.pc = "awaiting"]

\* Lines 354-394: from the end of the POST to the next yield
PipeReceive(frame, resp) ==
    LET f == [frame EXCEPT !.resp = resp]
    IN  IF resp.kind = "timeout" THEN OnTimeout(f)
        ELSE IF resp.status_code # 200
        THEN Yield(f, ErrorFrag("HTTP status"), "last")
        ELSE IF ~resp.body.valid
        THEN OnException(f, "response body")
        ELSE Yield(f,
                   IF resp.body.text = "found" THEN Frag("text", "answer")
                   ELSE Frag("notext", "No response text found"),
                   "answered")

\* FromUsage with the statistics formatted from the mapping as it was before
\* the update
FromUsage_FormatFirst(frame, v, costs) ==
    LET usage == frame.resp.body.usage
        cc == CurrentCost(frame.model_id, usage)
        costs1 == IF cc.priced
                  THEN UpdateConversationCost(costs, frame.conv_id, cc.cost,
                                              cc.tokens)
                  ELSE costs
        stats == FormatTokenStats(usage, frame.status, frame.incomplete_reason,
                                  frame.conv_id, cc.cost, v, costs)
    IN  IF usage.present
        THEN IF cc.raised
             THEN [frame |-> OnException(frame, "usage"), costs |-> costs]
             ELSE IF stats.raised
             THEN [frame |-> OnException(frame, "format"), costs |-> costs1]
             ELSE IF stats.shown
             THEN [frame |-> Yield(frame, [kind |-> "stats", head |-> "Token Usage",
                                           stats |-> stats], "last"),
                   costs |-> costs1]
             ELSE [frame |-> [frame EXCEPT !.pc = "done"], costs |-> costs1]
        ELSE IF v.SHOW_TOKEN_STATS
             THEN [frame |-> Yield(frame, Frag("nostats", "Token Usage: Not available"),
                                   "last"),
                   costs |-> costs]
             ELSE [frame |-> [frame EXCEPT !.pc = "done"], costs |-> costs]

\* Lines 420-477: cost, accounting, statistics
FromUsage(frame, v, costs) ==
    LET usage == frame.resp.body.usage
        cc == CurrentCost(frame.model_id, usage)
        costs1 == IF cc.priced
                  THEN UpdateConversationCost(costs, frame.conv_id, cc.cost,
                                              cc.tokens)
                  ELSE costs
        stats == FormatTokenStats(usage, frame.status, frame.incomplete_reason,
                                  frame.conv_id, cc.cost, v, costs1)
    IN  IF usage.present
        THEN IF cc.raised
             THEN [frame |-> OnException(frame, "usage"), costs |-> costs]
             ELSE IF stats.raised
             THEN [frame |-> OnException(frame, "format"), costs |-> costs1]
             ELSE IF stats.shown
             THEN [frame |-> Yield(frame, [kind |-> "stats", head |-> "Token Usage",
                                           stats |-> stats], "last"),
                   costs |-> costs1]
             ELSE [frame |-> [frame EXCEPT !.pc = "done"], costs |-> costs1]
        ELSE IF v.SHOW_TOKEN_STATS
             THEN [frame |-> Yield(frame, Frag("nostats", "Token Usage: Not available"),
                                   "last"),
                   costs |-> costs]
             ELSE [frame |-> [frame EXCEPT !.pc = "done"], costs |-> costs]

\* Lines 407-418: tools used
FromTools(frame, v, costs) ==
    IF frame.resp.body.tools
    THEN [frame |-> Yield(frame, Frag("tools", "Tools used"), "tooled"),
          costs |-> costs]
    ELSE FromUsage(frame, v, costs)

\* Lines 404-405: the hint after the truncation note
FromHint(frame, v, costs) ==
    IF frame.incomplete_reason = "max_output_tokens"
    THEN [frame |-> Yield(frame, Frag("hint", "Consider increasing"), "hinted"),
          costs |-> costs]
    ELSE FromTools(frame, v, costs)

\* Lines 396-403: the response status
FromStatus(frame, v, costs) ==
    LET body == frame.resp.body
        reason == IF body.incomplete_details = "absent" THEN "Unknown"
                  ELSE body.incomplete_details
        f1 == [frame EXCEPT !.status = body.status, !.incomplete_reason = reason]
    IN  IF body.status = "incomplete"
        THEN IF body.incomplete_details = "null"
             THEN [frame |-> OnException(frame, "incomplete_details"),
                   costs |-> costs]
             ELSE [frame |-> Yield(f1, Frag("note", "Note"), "noted"),
                   costs |-> costs]
        ELSE FromTools(frame, v, costs)

\* The generator resumed after a yield that is not its last
PipeResume(frame, v, costs) ==
    IF frame.pc = "answered" THEN FromStatus(frame, v, costs)
    ELSE IF frame.pc = "noted" THEN FromHint(frame, v, costs)
    ELSE IF frame.pc = "hinted" THEN FromTools(frame, v, costs)
    ELSE FromUsage(frame, v, costs)

-----------------------------------------------------------------------------
(* The adapter serving the host *)

Slots == 1..MaxSlots

\* Pipe.__init__, with the configuration the host loaded
Init ==
    /\ valves \in Configurations
    /\ api_key_index = 0
    /\ conversation_costs = <<>>
    /\ hostConcurrency = 1
    /\ turn = [s \in Slots |-> IdleFrame]
    /\ started = 0
    /\ trace = <<>>

\* The host calls pipe() and takes the first fragment
Begin(s, r) ==
    /\ s <= hostConcurrency
    /\ turn[s].pc \in {"idle", "done"}
    /\ started < MaxTurns
    /\ LET frame == [IdleFrame EXCEPT !.req = r, !.costs0 = conversation_costs,
                                      !.idx0 = api_key_index]
           out == PipeStart(frame, Requests[r], valves, api_key_index,
                            conversation_costs)
       IN  /\ turn' = [turn EXCEPT ![s] = out.frame]
           /\ api_key_index' = out.index
    /\ started' = started + 1
    /\ UNCHANGED <<valves, conversation_costs, hostConcurrency, trace>>

\* The host asks for the next fragment after the processing notice
Post(s) ==
    /\ turn[s].pc = "processing"
    /\ turn' = [turn EXCEPT ![s] = PipePost(@)]
    /\ UNCHANGED <<valves, api_key_index, conversation_costs, hostConcurrency,
                   started, trace>>

\* The POST ends
Receive(s, resp) ==
    /\ turn[s].pc = "awaiting"
    /\ turn' = [turn EXCEPT ![s] = PipeReceive(@, resp)]
    /\ UNCHANGED <<valves, api_key_index, conversation_costs, hostConcurrency,
                   started, trace>>

\* Resume with the mapping the turn read when it was called written back: a
\* read-modify-write that spans the suspension points
Resume_StaleCosts(s) ==
    /\ turn[s].pc \in {"answered", "noted", "hinted", "tooled"}
    /\ LET out == PipeResume(turn[s], valves, turn[s].costs0)
       IN  /\ turn' = [turn EXCEPT ![s] = out.frame]
           /\ conversation_costs' = out.costs
    /\ UNCHANGED <<valves, api_key_index, hostConcurrency, started, trace>>

\* The host asks for the next fragment
Resume(s) ==
    /\ turn[s].pc \in {"answered", "noted", "hinted", "tooled"}
    /\ LET out == PipeResume(turn[s], valves, conversation_costs)
       IN  /\ turn' = [turn EXCEPT ![s] = out.frame]
           /\ conversation_costs' = out.costs
    /\ UNCHANGED <<valves, api_key_index, hostConcurrency, started, trace>>

\* The host asks for a fragment after the last one: the generator returns
Finish(s) ==
    /\ turn[s].pc = "last"
    /\ turn' = [turn EXCEPT ![s].pc = "done"]
    /\ UNCHANGED <<valves, api_key_index, conversation_costs, hostConcurrency,
                   started, trace>>

Next ==
    \/ \E s \in Slots, r \in 1..Len(Requests) : Begin(s, r)
    \/ \E s \in Slots : Post(s)
    \/ \E s \in Slots, resp \in Responses : Receive(s, resp)
    \/ \E s \in Slots : Resume(s)
    \/ \E s \in Slots : Finish(s)

Spec == Init /\ [][Next]_vars

-----------------------------------------------------------------------------
(* The adapter serving a host that keeps several turns in flight: pipe() is a
   coroutine on one event loop, so a turn gives way to another only where it
   is suspended, at a yield or at the awaited POST *)

\* The calls the concurrent host makes: two users with supported models and
\* one unsupported model
HostRequests == {1, 3, 4}

HostUsages ==
    {NoUsage,
     Usage(Num(2), Num(1), Num(3), "absent", Absent),
     Usage(Num(0), Num(1), Num(2), "dict", Num(1)),
     Usage(NoneVal, Num(1), Num(1), "absent", Absent),
     Usage(Num(2), Num(1), NoneVal, "absent", Absent)}

HostResponses ==
    {[kind |-> "timeout", status_code |-> 0, body |-> InvalidBody]}
    \cup {[kind |-> "response", status_code |-> 200,
            body |-> Body("found", "completed", "absent", FALSE, u)] :
                u \in HostUsages}
    \cup {[kind |-> "response", status_code |-> 200,
            body |-> Body("none", "incomplete", "max_output_tokens", TRUE,
                          Usage(Num(2), Num(1), Num(3), "absent", Absent))]}

HostConfigurations ==
    {ValvesOf(<<"a">>, TRUE, TRUE), ValvesOf(<<"a">>, FALSE, TRUE)}

InitHost ==
    /\ valves \in HostConfigurations
    /\ api_key_index = 0
    /\ conversation_costs = <<>>
    /\ hostConcurrency = MaxSlots
    /\ turn = [s \in Slots |-> IdleFrame]
    /\ started = 0
    /\ trace = <<>>

\* Each slot holds one call of pipe(); the slots are taken in order
NextHost ==
    \/ \E r \in HostRequests :
           /\ started < MaxSlots
           /\ turn[started + 1].pc = "idle"
           /\ Begin(started + 1, r)
    \/ \E s \in Slots : Post(s)
    \/ \E s \in Slots, resp \in HostResponses : Receive(s, resp)
    \/ \E s \in Slots : Resume(s)
    \/ \E s \in Slots : Finish(s)

SpecHost == InitHost /\ [][NextHost]_vars

-----------------------------------------------------------------------------
(* The rotation driven alone: _get_next_api_key called again and again on a
   fresh instance, for every short API_KEYS string *)

KeyAlphabet == {"a", "b", "c", ",", " "}

KeyStrings == UNION {[1..n -> KeyAlphabet] : n \in 0..MaxKeyChars}

InitKeys ==
    /\ valves \in {ValvesOf(k, TRUE, TRUE) : k \in KeyStrings}
    /\ api_key_index = 0
    /\ conversation_costs = <<>>
    /\ hostConcurrency = 1
    /\ turn = [s \in Slots |-> IdleFrame]
    /\ started = 0
    /\ trace = <<>>

CallGetNextApiKey ==
    /\ Len(trace) < MaxCalls
    /\ LET r == GetNextApiKey(valves, api_key_index)
       IN  /\ api_key_index' = r.index
           /\ trace' = Append(trace, [op |-> "_get_next_api_key",
                                      raised |-> r.raised, key |-> r.key,
                                      before |-> api_key_index,
                                      after |-> r.index])
    /\ UNCHANGED <<valves, conversation_costs, hostConcurrency, turn, started>>

NextKeys == CallGetNextApiKey

SpecKeys == InitKeys /\ [][NextKeys]_vars

-----------------------------------------------------------------------------
(* The other methods driven alone on a fresh instance: one behaviour calls one
   of them, with every input of the sets below *)

InitUnit ==
    /\ valves = ValvesOf(<<"a">>, TRUE, TRUE)
    /\ api_key_index = 0
    /\ conversation_costs = <<>>
    /\ hostConcurrency = 1
    /\ turn = [s \in Slots |-> IdleFrame]
    /\ started = 0
    /\ trace = <<>>

Only(op) == IF trace = <<>> THEN TRUE ELSE trace[1].op = op

UnitConvIds ==
    {GetConversationId(Requests[1].body, U1),
     GetConversationId(Requests[1].body, U2)}

UnitCosts == {0, 3}

UnitTokens ==
    {[input |-> 2, output |-> 1, reasoning |-> 0],
     [input |-> 0, output |-> 0, reasoning |-> 1],
     [input |-> 1]}

CallUpdateConversationCost(conv_id, cost, tokens) ==
    /\ Only("_update_conversation_cost")
    /\ Len(trace) < MaxUpdates
    /\ conversation_costs' =
           UpdateConversationCost(conversation_costs, conv_id, cost, tokens)
    /\ trace' = Append(trace, [op |-> "_update_conversation_cost",
                               conv_id |-> conv_id, cost |-> cost,
                               tokens |-> tokens,
                               before |-> conversation_costs,
                               after |-> conversation_costs'])
    /\ UNCHANGED <<valves, api_key_index, hostConcurrency, turn, started>>

UnitModelIds == {O1Pro, O3Pro, <<"gpt-4">>}

UnitCounts == {0, 1, Million}

UnitUsages ==
    {Usage(Num(i), Num(o), Num(i + o), "absent", Absent) :
        i \in UnitCounts, o \in UnitCounts}
    \cup {Usage(Num(i), Num(o), Num(i + o), "dict", Num(r)) :
        i \in UnitCounts, o \in UnitCounts, r \in UnitCounts}

\* The cost computation of pipe() on a usage block
CallCurrentCost(model_id, usage) ==
    /\ trace = <<>>
    /\ trace' = <<[op |-> "current_cost", model_id |-> model_id,
                   usage |-> usage, out |-> CurrentCost(model_id, usage)]>>
    /\ UNCHANGED <<valves, api_key_index, conversation_costs, hostConcurrency,
                   turn, started>>

CallGetConversationId(user, h) ==
    /\ Only("_get_conversation_id")
    /\ Len(trace) < 2
    /\ trace' = Append(trace, [op |-> "_get_conversation_id", user |-> user,
                               h |-> h,
                               conv_id |-> GetConversationId(
                                   [model |-> ModelO3, messages |-> Histories[h]],
                                   user)])
    /\ UNCHANGED <<valves, api_key_index, conversation_costs, hostConcurrency,
                   turn, started>>

NextUnit ==
    \/ \E c \in UnitConvIds, cost \in UnitCosts, tokens \in UnitTokens :
           CallUpdateConversationCost(c, cost, tokens)
    \/ \E m \in UnitModelIds, u \in UnitUsages : CallCurrentCost(m, u)
    \/ \E u \in Users, h \in 1..Len(Histories) : CallGetConversationId(u, h)

SpecUnit == InitUnit /\ [][NextUnit]_vars

-----------------------------------------------------------------------------
(* Notions the properties below share, stated on what the host passed in and
   what it saw come out *)

Begun(f) == f.pc # "idle"

Ended(f) == f.pc \in {"last", "done"}

LastFrag(f) == f.frags[Len(f.frags)]

\* The turn ended with an error text
Failed(f) == Ended(f) /\ f.frags # <<>> /\ LastFrag(f).kind = "error"

ErrorCount(f) == Cardinality({i \in 1..Len(f.frags) : f.frags[i].kind = "error"})

\* At least one non-blank entry between the commas of API_KEYS
HasCredential == \E i \in 1..Len(valves.API_KEYS) : valves.API_KEYS[i] \notin {",", " "}

AccountOf(costs, c) == IF c \in DOMAIN costs THEN costs[c] ELSE NewAccount

Status200(f) == f.resp.kind = "response" /\ f.resp.status_code = 200

\* The numbers of a usage block, a missing one counting as zero
Count(x) == IF x.t = "int" THEN x.v ELSE 0

UsageReasoning(u) ==
    IF u.output_tokens_details = "dict" THEN Count(u.reasoning_tokens) ELSE 0

\* Every count the cost computation reads is a number or missing
NumericCounts(u) ==
    /\ u.input_tokens.t # "none"
    /\ u.output_tokens.t # "none"
    /\ u.output_tokens_details # "null"
    /\ u.output_tokens_details = "dict" => u.reasoning_tokens.t # "none"

\* The response is decoded and walked without error up to the usage block
ReadableBody(b) ==
    b.valid /\ ~(b.status = "incomplete" /\ b.incomplete_details = "null")

-----------------------------------------------------------------------------
(* C1 *)

\* C1 (as claimed): a turn that ended with an error text leaves the accounting
\* mapping as it was when the turn began.
C1_FailedTurnLeavesAccounting ==
    \A s \in Slots :
        Failed(turn[s]) => conversation_costs = turn[s].costs0

-----------------------------------------------------------------------------
(* C2 *)

\* C2 (as claimed): every turn whose POST returned status 200 and that
\* completed without an error text has added one message to the account of its
\* conversation.
C2_Status200AlwaysAccounts ==
    \A s \in Slots :
        (turn[s].pc = "done" /\ Status200(turn[s]) /\ ~Failed(turn[s])) =>
            AccountOf(conversation_costs, turn[s].conv_id).message_count =
                AccountOf(turn[s].costs0, turn[s].conv_id).message_count + 1

\* The account of the turn's conversation as it was at the start of the turn,
\* plus this turn's usage and the cost shown for it
WithThisTurn(f, cost) ==
    LET old == AccountOf(f.costs0, f.conv_id)
        u == f.resp.body.usage
    IN  [total_cost |-> old.total_cost + cost,
         total_input_tokens |-> old.total_input_tokens + Count(u.input_tokens),
         total_output_tokens |-> old.total_output_tokens + Count(u.output_tokens),
         total_reasoning_tokens |-> old.total_reasoning_tokens + UsageReasoning(u),
         message_count |-> old.message_count + 1]

\* C2 (amended): when a status-200 response is read without error up to a
\* non-empty usage block with numeric counts, the account of the turn's
\* conversation has one more message and this turn's usage added before the
\* statistics are formatted: the totals a statistics fragment shows include the
\* current message, and so does the account once the turn is over.  When the
\* usage block is missing or empty no account is created or changed.
C2_AccountedBeforeStats ==
    \A s \in Slots :
        LET f == turn[s] IN
        /\ \A i \in 1..Len(f.frags) :
               f.frags[i].kind = "stats" =>
                   /\ f.frags[i].stats.cumulative = valves.SHOW_CUMULATIVE_COST
                   /\ f.frags[i].stats.cumulative =>
                          /\ f.frags[i].stats.totals =
                                 WithThisTurn(f, f.frags[i].stats.cost)
                          /\ conversation_costs[f.conv_id] = f.frags[i].stats.totals
        /\ (f.pc = "done" /\ Status200(f) /\ ReadableBody(f.resp.body)
              /\ f.resp.body.usage.present /\ NumericCounts(f.resp.body.usage)) =>
               /\ f.conv_id \in DOMAIN conversation_costs
               /\ conversation_costs[f.conv_id].total_cost >=
                      AccountOf(f.costs0, f.conv_id).total_cost
               /\ conversation_costs[f.conv_id] =
                      WithThisTurn(f, conversation_costs[f.conv_id].total_cost
                                      - AccountOf(f.costs0, f.conv_id).total_cost)
               /\ \A c \in DOMAIN f.costs0 \ {f.conv_id} :
                      conversation_costs[c] = f.costs0[c]
        /\ (f.pc = "done" /\ Status200(f) /\ ~f.resp.body.usage.present) =>
               conversation_costs = f.costs0

\* A second turn of a conversation has shown totals that count two messages
C2_Witness ==
    \E s \in Slots :
        /\ turn[s].pc = "done"
        /\ LastFrag(turn[s]).kind = "stats"
        /\ LastFrag(turn[s]).stats.cumulative
        /\ LastFrag(turn[s]).stats.totals.message_count = 2
        /\ LastFrag(turn[s]).stats.totals.total_input_tokens = 4

-----------------------------------------------------------------------------
(* C3 *)

\* The calls of _update_conversation_cost for conv_id among the first n calls
UpdatesOf(conv_id, n) == {i \in 1..n : trace[i].conv_id = conv_id}

\* What a call supplied for a field: its cost, or tokens.get(field, 0)
Pick(e, field) == IF field = "cost" THEN e.cost ELSE Get(e.tokens, field, 0)

\* The sum, over the first n calls that were made for conv_id, of the values
\* supplied for a field
RECURSIVE Supplied(_, _, _)
Supplied(conv_id, n, field) ==
    IF n = 0 THEN 0
    ELSE Supplied(conv_id, n - 1, field)
         + (IF trace[n].conv_id = conv_id THEN Pick(trace[n], field) ELSE 0)

NoLess(a, b) ==
    /\ a.total_cost >= b.total_cost
    /\ a.total_input_tokens >= b.total_input_tokens
    /\ a.total_output_tokens >= b.total_output_tokens
    /\ a.total_reasoning_tokens >= b.total_reasoning_tokens
    /\ a.message_count >= b.message_count

\* C3: after n calls of _update_conversation_cost for one identifier, starting
\* with no account, the account counts n messages and each cumulative field is
\* the sum of the n supplied values (the same values supplied twice are added
\* twice); an identifier never updated has no account; a call leaves the
\* accounts of the other identifiers as they were, and no field of any account
\* ever decreases.
C3_AccountingIsAdditive ==
    (trace # <<>> /\ trace[1].op = "_update_conversation_cost") =>
        /\ \A c \in UnitConvIds :
               LET n == Cardinality(UpdatesOf(c, Len(trace))) IN
               IF n = 0 THEN c \notin DOMAIN conversation_costs
               ELSE /\ c \in DOMAIN conversation_costs
                    /\ conversation_costs[c] =
                         [total_cost |-> Supplied(c, Len(trace), "cost"),
                          total_input_tokens |->
                              Supplied(c, Len(trace), "input"),
                          total_output_tokens |->
                              Supplied(c, Len(trace), "output"),
                          total_reasoning_tokens |->
                              Supplied(c, Len(trace), "reasoning"),
                          message_count |-> n]
        /\ \A i \in 1..Len(trace) :
               /\ DOMAIN trace[i].after = DOMAIN trace[i].before \cup {trace[i].conv_id}
               /\ \A c \in DOMAIN trace[i].before :
                      /\ NoLess(trace[i].after[c], trace[i].before[c])
                      /\ c # trace[i].conv_id => trace[i].after[c] = trace[i].before[c]

\* The same values were supplied twice for one identifier, after a call for
\* another one, and they count twice
C3_Witness ==
    /\ Len(trace) = 3
    /\ trace[1].op = "_update_conversation_cost"
    /\ trace[1].conv_id # trace[2].conv_id
    /\ trace[2].conv_id = trace[3].conv_id
    /\ trace[2].cost = 3 /\ trace[3].cost = 3
    /\ trace[2].tokens = trace[3].tokens
    /\ trace[2].tokens = [input |-> 2, output |-> 1, reasoning |-> 0]
    /\ conversation_costs[trace[3].conv_id].total_cost = 6
    /\ conversation_costs[trace[3].conv_id].total_input_tokens = 4
    /\ conversation_costs[trace[3].conv_id].message_count = 2

-----------------------------------------------------------------------------
(* C4 *)

Distinct(seq) == \A i, j \in 1..Len(seq) : seq[i] = seq[j] => i = j

\* C4: with K >= 1 configured credentials, consecutive calls of
\* _get_next_api_key return them in list order, cyclically: the call made with
\* the cursor at c0 returns element c0 mod K, and the i-th call after it
\* element (c0 + i) mod K; each call raises the cursor by exactly one and the
\* cursor is never reset, so after N calls it is N; and each credential of a
\* list without repetitions has been returned N div K or N div K + 1 times.
C4_RoundRobin ==
    LET keys == ParseKeys(valves.API_KEYS)
        K == Len(keys)
        N == Len(trace)
    IN  (K >= 1 /\ N >= 1 /\ trace[1].op = "_get_next_api_key") =>
            /\ api_key_index = N
            /\ \A i \in 1..N :
                   /\ ~trace[i].raised
                   /\ trace[i].after = trace[i].before + 1
                   /\ \A j \in i..N :
                          trace[j].key = keys[((trace[i].before + (j - i)) % K) + 1]
            /\ trace[1].before = 0
            /\ Distinct(keys) =>
                   \A k \in 1..K :
                       Cardinality({i \in 1..N : trace[i].key = keys[k]})
                           \in {N \div K, (N \div K) + 1}

\* Three different credentials, the rotation past its first wrap
C4_Witness ==
    /\ Len(ParseKeys(valves.API_KEYS)) = 3
    /\ Distinct(ParseKeys(valves.API_KEYS))
    /\ Len(trace) = 5
    /\ trace[1].op = "_get_next_api_key"
    /\ trace[4].key = trace[1].key
    /\ trace[5].key = trace[2].key
    /\ trace[3].key # trace[1].key
    /\ api_key_index = 5

-----------------------------------------------------------------------------
(* C5 *)

\* What follows the first dot of body["model"], all of it when it has no dot
Suffix(model) ==
    LET dots == {i \in 1..Len(model) : model[i] = "."}
    IN  IF dots = {} THEN model
        ELSE SubSeq(model, (CHOOSE i \in dots : \A j \in dots : i <= j) + 1,
                    Len(model))

Unsupported(f) == Suffix(Requests[f.req].body.model) \notin {O1Pro, O3Pro}

\* C5 (as claimed): under every configuration a call for an unsupported model
\* yields the unsupported-model error text and nothing else, posts nothing and
\* leaves the accounting mapping alone.
C5_UnsupportedModelAnyConfiguration ==
    \A s \in Slots :
        (Begun(turn[s]) /\ Unsupported(turn[s])) =>
            /\ turn[s].frags = <<ErrorFrag("Model not supported")>>
            /\ turn[s].posts = 0
            /\ conversation_costs = turn[s].costs0

\* C5 (amended): a call for an unsupported model yields exactly one fragment,
\* posts nothing and leaves the accounting mapping alone; the fragment is the
\* unsupported-model error text when a credential is configured and the
\* no-credentials error text when none is, the credential being taken first.
C5_UnsupportedModel ==
    \A s \in Slots :
        (Begun(turn[s]) /\ Unsupported(turn[s])) =>
            /\ Ended(turn[s])
            /\ turn[s].frags =
                   <<IF HasCredential THEN ErrorFrag("Model not supported")
                     ELSE ErrorFrag("No API keys configured")>>
            /\ turn[s].posts = 0
            /\ conversation_costs = turn[s].costs0

\* An unsupported model, asked for with a malformed history, on an adapter
\* that holds an account
C5_Witness ==
    \E s \in Slots :
        /\ turn[s].pc = "done"
        /\ turn[s].req = 10
        /\ Unsupported(turn[s])
        /\ HasCredential
        /\ DOMAIN conversation_costs # {}
        /\ turn[s].frags = <<ErrorFrag("Model not supported")>>

-----------------------------------------------------------------------------
(* C6 *)

\* C6 (as claimed): with no credential configured the configuration error
\* leaves pipe() uncaught: the turn ends raised, with no fragment.
C6_ConfigurationErrorPropagates ==
    \A s \in Slots :
        (Begun(turn[s]) /\ ~HasCredential) =>
            turn[s].pc = "raised" /\ turn[s].frags = <<>>

\* C6 (amended): with no credential configured the configuration error is
\* caught by the handler of pipe() like the other kinds: the turn yields the one
\* fragment "Error: No API keys configured" and ends, nothing leaves the
\* generator, nothing is posted, and cursor and accounting stay as they were.
C6_ConfigurationErrorReported ==
    \A s \in Slots :
        /\ turn[s].pc # "raised"
        /\ (Begun(turn[s]) /\ ~HasCredential) =>
               /\ Ended(turn[s])
               /\ turn[s].frags = <<ErrorFrag("No API keys configured")>>
               /\ turn[s].posts = 0
               /\ api_key_index = turn[s].idx0
               /\ conversation_costs = turn[s].costs0

\* A second turn on an adapter whose API_KEYS holds blanks and a comma only
C6_Witness ==
    \E s \in Slots :
        /\ turn[s].pc = "done"
        /\ ~HasCredential
        /\ valves.API_KEYS # <<>>
        /\ started = 2
        /\ turn[s].frags = <<ErrorFrag("No API keys configured")>>

-----------------------------------------------------------------------------
(* C7 *)

\* C7 (as claimed): a turn that ended with an error text leaves the credential
\* cursor where it was when the turn began.
C7_FailedTurnLeavesCursor ==
    \A s \in Slots :
        Failed(turn[s]) => api_key_index = turn[s].idx0

\* C7 (amended): a turn that ended with an error text leaves the cursor one
\* above its value at the start of the turn when a credential is configured
\* (the credential is taken before any check, as in a turn that succeeds), and
\* where it was only when none is configured.
C7_FailedTurnAdvancesCursorOnce ==
    \A s \in Slots :
        Failed(turn[s]) =>
            api_key_index = turn[s].idx0 + (IF HasCredential THEN 1 ELSE 0)

\* A second turn that failed on the HTTP status
C7_Witness ==
    \E s \in Slots :
        /\ turn[s].pc = "done"
        /\ Failed(turn[s])
        /\ LastFrag(turn[s]).msg = "HTTP status"
        /\ turn[s].idx0 = 1
        /\ api_key_index = 2

-----------------------------------------------------------------------------
(* C8 *)

\* C8: the cost of a message in millionths of a dollar is input tokens times
\* the input price plus output tokens times the output price, plus reasoning
\* tokens times the output price exactly when there are reasoning tokens and the
\* model is o3-pro; o3-pro costs (20, 80) and o1-pro (150, 600) per million
\* tokens, so a million input and a million output tokens on o3-pro cost 100
\* dollars; a model outside the pricing table costs nothing.
C8_CostFormula ==
    (trace # <<>> /\ trace[1].op = "current_cost") =>
        LET e == trace[1]
            in == Count(e.usage.input_tokens)
            out == Count(e.usage.output_tokens)
            r == UsageReasoning(e.usage)
        IN  /\ ~e.out.raised
            /\ e.model_id = O3Pro =>
                   /\ e.out.cost = in * 20 + out * 80 + (IF r > 0 THEN r * 80 ELSE 0)
                   /\ (in = Million /\ out = Million /\ r = 0) =>
                          e.out.cost = 100 * Million
            /\ e.model_id = O1Pro => e.out.cost = in * 150 + out * 600
            /\ e.model_id \notin {O1Pro, O3Pro} => e.out.cost = 0

\* o1-pro with a million reasoning tokens, charged for input and output alone
C8_Witness ==
    /\ trace # <<>>
    /\ trace[1].op = "current_cost"
    /\ trace[1].model_id = O1Pro
    /\ trace[1].usage.input_tokens = Num(Million)
    /\ trace[1].usage.output_tokens = Num(1)
    /\ trace[1].usage.output_tokens_details = "dict"
    /\ trace[1].usage.reasoning_tokens = Num(Million)
    /\ trace[1].out.cost = 150 * Million + 600

-----------------------------------------------------------------------------
(* C9 *)

UserIndexes(h) ==
    {i \in 1..Len(Histories[h]) : Histories[h][i].role = "user"}

\* The text of the earliest user message of a history that has one
EarliestUserText(h) ==
    ContentText(Histories[h][CHOOSE i \in UserIndexes(h) :
                                 \A j \in UserIndexes(h) : i <= j].content)

SamePrefix(a, b) ==
    /\ Min(Len(a), PrefixLen) = Min(Len(b), PrefixLen)
    /\ \A i \in 1..Min(Len(a), PrefixLen) : a[i] = b[i]

\* C9: for one user, two histories whose first user message has the same first
\* 50 characters of text get the same conversation identifier, whatever
\* follows that message and however long the histories are.
C9_StableConversationId ==
    (Len(trace) = 2 /\ trace[1].op = "_get_conversation_id") =>
        ((/\ trace[1].user = trace[2].user
          /\ UserIndexes(trace[1].h) # {}
          /\ UserIndexes(trace[2].h) # {}
          /\ SamePrefix(EarliestUserText(trace[1].h), EarliestUserText(trace[2].h)))
            => trace[1].conv_id = trace[2].conv_id)

\* A one-message history and a longer one whose first user messages differ
\* after the 50th character
C9_Witness ==
    /\ Len(trace) = 2
    /\ trace[1].op = "_get_conversation_id"
    /\ trace[1].user = U1 /\ trace[2].user = U1
    /\ trace[1].h = 3 /\ trace[2].h = 4
    /\ EarliestUserText(3) # EarliestUserText(4)
    /\ Len(Histories[3]) < Len(Histories[4])
    /\ trace[1].conv_id = trace[2].conv_id

-----------------------------------------------------------------------------
(* C10 *)

\* An item of a list content that lacks a key the translation reads
BrokenItem(item) ==
    \/ "type" \notin DOMAIN item
    \/ "type" \in DOMAIN item /\ item.type = "text" /\ "text" \notin DOMAIN item
    \/ "type" \in DOMAIN item /\ item.type = "image_url"
         /\ ("image_url" \notin DOMAIN item \/ "url" \notin DOMAIN item.image_url)

TranslationFails(f) ==
    \E i \in 1..Len(Requests[f.req].body.messages) :
        LET m == Requests[f.req].body.messages[i] IN
        /\ m.role = "user"
        /\ m.content.kind = "list"
        /\ \E k \in 1..Len(m.content.parts) : BrokenItem(m.content.parts[k])

\* Something in what the host passed or the remote API answered makes the
\* turn fail
FailureCause(f) ==
    \/ ~HasCredential
    \/ Unsupported(f)
    \/ TranslationFails(f)
    \/ f.resp.kind = "timeout"
    \/ f.resp.kind = "response" /\ f.resp.status_code # 200
    \/ /\ Status200(f)
       /\ \/ ~ReadableBody(f.resp.body)
          \/ f.resp.body.usage.present /\ ~NumericCounts(f.resp.body.usage)
          \/ /\ f.resp.body.usage.present
             /\ valves.SHOW_TOKEN_STATS
             /\ f.resp.body.usage.total_tokens.t = "none"

\* C10: a turn issues at most one POST, and none when the model is unsupported
\* or the translation of the messages fails; an error fragment begins with
\* "Error:", is the last fragment of its turn and the only error fragment; a
\* turn that fails yields one, a turn that does not fail yields none.
C10_NoRetryOneError ==
    \A s \in Slots :
        LET f == turn[s] IN
        Begun(f) =>
            /\ f.pc # "raised"
            /\ f.posts <= 1
            /\ (Unsupported(f) \/ TranslationFails(f)) => f.posts = 0
            /\ ErrorCount(f) <= 1
            /\ \A i \in 1..Len(f.frags) :
                   f.frags[i].kind = "error" =>
                       /\ i = Len(f.frags)
                       /\ f.frags[i].head = "Error:"
                       /\ Ended(f)
            /\ f.pc = "done" =>
                   ErrorCount(f) = (IF FailureCause(f) THEN 1 ELSE 0)

\* A turn that failed after its answer: one POST, the error fragment last
C10_Witness ==
    \E s \in Slots :
        /\ turn[s].pc = "done"
        /\ turn[s].posts = 1
        /\ Len(turn[s].frags) >= 3
        /\ turn[s].frags[2].kind = "text"
        /\ LastFrag(turn[s]).kind = "error"
        /\ ErrorCount(turn[s]) = 1

-----------------------------------------------------------------------------
(* C11 *)

\* The turn has executed the accounting step (the call of
\* _update_conversation_cost): its status-200 response was read without error
\* up to a non-empty usage block with numeric counts, and the generator has
\* gone past its last suspension point before that block
Accounted(f) ==
    /\ Ended(f)
    /\ Status200(f)
    /\ ReadableBody(f.resp.body)
    /\ f.resp.body.usage.present
    /\ NumericCounts(f.resp.body.usage)

\* What a turn supplied to the accounting step for a field
TurnSupplied(f, field) ==
    LET u == f.resp.body.usage
    IN  IF field = "message_count" THEN 1
        ELSE IF field = "total_input_tokens" THEN Count(u.input_tokens)
        ELSE IF field = "total_output_tokens" THEN Count(u.output_tokens)
        ELSE UsageReasoning(u)

\* The sum, over the turns of slots 1..n that were made for the identifier
\* and executed the accounting step, of what they supplied for a field
RECURSIVE TurnsSupplied(_, _, _)
TurnsSupplied(c, n, field) ==
    IF n = 0 THEN 0
    ELSE TurnsSupplied(c, n - 1, field)
         + (IF Accounted(turn[n]) /\ turn[n].conv_id = c
            THEN TurnSupplied(turn[n], field) ELSE 0)

AllFinished == \A s \in Slots : turn[s].pc \in {"idle", "done"}

AccountField(a, field) ==
    IF field = "message_count" THEN a.message_count
    ELSE IF field = "total_input_tokens" THEN a.total_input_tokens
    ELSE IF field = "total_output_tokens" THEN a.total_output_tokens
    ELSE a.total_reasoning_tokens

\* C11: under cooperative scheduling, for every interleaving of the turns in
\* flight, once all turns have finished each account's message_count is the
\* number of turns for its identifier that executed the accounting step and
\* each cumulative token total is the sum of those turns' token counts; an
\* identifier none of the turns accounted for has no account.  No update is
\* lost.
C11_NoLostUpdate ==
    AllFinished =>
        /\ \A s \in Slots :
               Accounted(turn[s]) => turn[s].conv_id \in DOMAIN conversation_costs
        /\ \A c \in DOMAIN conversation_costs :
               \A field \in {"message_count", "total_input_tokens",
                              "total_output_tokens", "total_reasoning_tokens"} :
                   AccountField(conversation_costs[c], field) =
                       TurnsSupplied(c, MaxSlots, field)

\* Two turns of one conversation were in flight together (each was called
\* before the other reached the accounting step), both executed it, and the
\* account counts both
C11_Witness ==
    /\ AllFinished
    /\ \E s, t \in Slots :
           /\ s # t
           /\ Accounted(turn[s]) /\ Accounted(turn[t])
           /\ turn[s].conv_id = turn[t].conv_id
           /\ turn[s].costs0 = <<>> /\ turn[t].costs0 = <<>>
           /\ conversation_costs[turn[s].conv_id].message_count = 2
           /\ conversation_costs[turn[s].conv_id].total_input_tokens = 4

====
